---- MODULE Spec2Model ----
(***************************************************************************)
(* A model of grid-db-rs: a versioned key-value store over sled trees.     *)
(* The state is the five sled trees of one map, sled's id counter, and the *)
(* two in-memory fields of GridDb (backup_key_cache, cached_meta).  Each   *)
(* public operation of GridDb is one action.                               *)
(***************************************************************************)
EXTENDS Integers, Sequences, FiniteSets, TLC

\* ---------------------------------------------------------------- bounds

\* Largest id sled's generate_id hands out in the model.
MaxVersion ==
    5

\* Keys of the model are the levels 1..MaxLevel at one morton code.
MaxLevel ==
    2

\* Data bytes of an Insert are 0..MaxByte.
MaxByte ==
    0

\* Most write calls in one behaviour.
MaxWrites ==
    3

\* Most add_change calls that build one batch.
MaxAdds ==
    2

\* Most add_change calls on the encoder that is checked on its own.
MaxEncoderAdds ==
    3

\* ---------------------------------------------------------------- Option

None ==
    <<>>

Some(x) ==
    <<x>>

unwrap(o) ==
    o[1]

\* ---------------------------------------------------------------- sled::Tree
\* A tree is a function from the byte keys it holds to their values.

EmptyTree ==
    [k \in {} |-> <<>>]

TreeGet(tree, key) ==
    IF key \in DOMAIN tree THEN Some(tree[key]) ELSE None

TreeInsert(tree, key, value) ==
    [k \in (DOMAIN tree) \cup {key} |-> IF k = key THEN value ELSE tree[k]]

TreeRemove(tree, key) ==
    [k \in (DOMAIN tree) \ {key} |-> tree[k]]

\* ---------------------------------------------------------------- integers
\* A u64 / u128 is a tuple of 16-bit limbs, most significant first.

Byte ==
    2 ^ 8

Limb ==
    Byte * Byte

U128Limbs ==
    128 \div 16

U64Limbs ==
    64 \div 16

\* The u128 whose value is the small number n.
U128(n) ==
    [i \in 1..U128Limbs |-> IF i = U128Limbs THEN n % Limb ELSE 0]

U64(n) ==
    [i \in 1..U64Limbs |-> IF i = U64Limbs THEN n % Limb ELSE 0]

\* to_be_bytes: two bytes per limb, high byte first.
to_be_bytes(x) ==
    [i \in 1..(2 * Len(x)) |->
        IF i % 2 = 1 THEN x[(i + 1) \div 2] \div Byte ELSE x[i \div 2] % Byte]

\* from_be_bytes: each pair of bytes is one limb.
from_be_bytes(bytes) ==
    [i \in 1..(Len(bytes) \div 2) |-> bytes[2 * i - 1] * Byte + bytes[2 * i]]

\* Ord of two equally long tuples of limbs or bytes: lexicographic.
RECURSIVE SeqLess(_, _)
SeqLess(a, b) ==
    IF a = <<>> \/ b = <<>> THEN a = <<>> /\ b # <<>>
    ELSE IF Head(a) # Head(b) THEN Head(a) < Head(b)
    ELSE SeqLess(Tail(a), Tail(b))

\* ---------------------------------------------------------------- DbKey2i32

DbKey2i32_new(level, morton) ==
    [level |-> level, morton |-> morton]

\* A 2D as_sled_key with the eight morton bytes least significant first.
DbKey2i32_as_sled_key_le(key) ==
    <<key.level>> \o [i \in 1..(2 * Len(key.morton)) |->
                         to_be_bytes(key.morton)[2 * Len(key.morton) + 1 - i]]

\* 9 bytes: the level, then the big-endian u64.
DbKey2i32_as_sled_key(key) ==
    <<key.level>> \o to_be_bytes(key.morton)

DbKey2i32_from_sled_key(bytes) ==
    LET level == bytes[1]
        morton_bytes == SubSeq(bytes, 2, 9)
    IN  DbKey2i32_new(level, from_be_bytes(morton_bytes))

\* ---------------------------------------------------------------- DbKey3i32

DbKey3i32_new(level, morton) ==
    [level |-> level, morton |-> morton]

\* 13 bytes: the level, then the low 12 bytes of the big-endian u128.
as_sled_key(key) ==
    <<key.level>> \o SubSeq(to_be_bytes(key.morton), 5, 16)

\* A 3D from_sled_key that copies the twelve bytes to the front of the u128.
from_sled_key_front(bytes) ==
    LET level == bytes[1]
        morton_bytes == SubSeq(bytes, 2, 13) \o <<0, 0, 0, 0>>
    IN  DbKey3i32_new(level, from_be_bytes(morton_bytes))

from_sled_key(bytes) ==
    LET level == bytes[1]
        morton_bytes == <<0, 0, 0, 0>> \o SubSeq(bytes, 2, 13)
    IN  DbKey3i32_new(level, from_be_bytes(morton_bytes))

\* derive(Ord) on DbKey3i32: level first, then morton.
KeyLess(a, b) ==
    \/ a.level < b.level
    \/ a.level = b.level /\ SeqLess(a.morton, b.morton)

\* ---------------------------------------------------------------- Version

Version_new(number) ==
    [number |-> number]

\* u64::to_be_bytes of the version number.
into_sled_key(version) ==
    to_be_bytes(U64(version.number))

\* ---------------------------------------------------------------- Change

Insert(bytes) ==
    [tag |-> "Insert", bytes |-> bytes]

Remove ==
    [tag |-> "Remove", bytes |-> <<>>]

\* Change::serialize: the archived form of a change, as stored in the trees.
serialize(change) ==
    IF change.tag = "Insert"
    THEN [archived |-> "Insert", data |-> change.bytes]
    ELSE [archived |-> "Remove", data |-> <<>>]

\* Change::serialize_remove::<12>()
serialize_remove ==
    [archived |-> "Remove", data |-> <<>>]

\* ArchivedBuf::deserialize on an archived change.
deserialize(archived_change) ==
    IF archived_change.archived = "Insert"
    THEN Insert(archived_change.data)
    ELSE Remove

\* ---------------------------------------------------------------- ChangeEncoder
\* added_changes is a hash map from key to change.

ChangeEncoder_default ==
    EmptyTree

\* An add_change that keeps the change a key already has.
add_change_keeps_first(added_changes, key, change) ==
    IF key \in DOMAIN added_changes THEN added_changes
    ELSE TreeInsert(added_changes, key, change)

add_change(added_changes, key, change) ==
    TreeInsert(added_changes, key, change)

\* The least key of a non-empty set under derive(Ord).
MinKey(keys) ==
    CHOOSE k \in keys : \A other \in keys : other = k \/ KeyLess(k, other)

\* The keys of a set in ascending order (sort_by_key, BTreeSet and BTreeMap order).
RECURSIVE SortedKeys(_)
SortedKeys(keys) ==
    IF keys = {} THEN <<>>
    ELSE LET k == MinKey(keys) IN <<k>> \o SortedKeys(keys \ {k})

\* ChangeEncoder::encode: serialize the values, sort by key, encode the keys.
encode(added_changes) ==
    LET sorted == SortedKeys(DOMAIN added_changes)
    IN  [i \in 1..Len(sorted) |->
            <<as_sled_key(sorted[i]), serialize(added_changes[sorted[i]])>>]

\* ---------------------------------------------------------------- working_tree.rs

RECURSIVE write_changes_loop(_, _, _, _)
write_changes_loop(txn, keys, changes, reverse_changes) ==
    IF changes = <<>>
    THEN [txn |-> txn, reverse_changes |-> reverse_changes]
    ELSE LET key_bytes == Head(changes)[1]
             change == Head(changes)[2]
             key == from_sled_key(key_bytes)
             old_value == TreeGet(txn, key_bytes)
             new_txn == IF change.archived = "Insert"
                        THEN TreeInsert(txn, key_bytes, change)
                        ELSE TreeRemove(txn, key_bytes)
             new_reverse ==
                 IF key \in keys THEN reverse_changes
                 ELSE IF old_value # None
                      THEN Append(reverse_changes, <<key_bytes, unwrap(old_value)>>)
                      ELSE Append(reverse_changes, <<key_bytes, serialize_remove>>)
         IN  write_changes_loop(new_txn, keys, Tail(changes), new_reverse)

\* A working tree write that leaves a removed key in place.
write_changes_keeps_removed(txn, backup_key_cache, changes) ==
    LET applied == write_changes_loop(txn, backup_key_cache, changes, <<>>)
    IN  [applied EXCEPT !.txn =
            [key_bytes \in (DOMAIN txn) \cup (DOMAIN applied.txn) |->
                IF key_bytes \in DOMAIN applied.txn
                THEN applied.txn[key_bytes]
                ELSE txn[key_bytes]]]

\* A working tree write that backs up every change, also of a key the cache holds.
write_changes_ignores_cache(txn, backup_key_cache, changes) ==
    write_changes_loop(txn, {}, changes, <<>>)

\* A working tree write that backs up nothing for a key that was absent.
write_changes_skips_absent(txn, backup_key_cache, changes) ==
    LET applied == write_changes_loop(txn, backup_key_cache, changes, <<>>)
    IN  [applied EXCEPT !.reverse_changes =
            SelectSeq(@, LAMBDA entry : entry[2] # serialize_remove)]

\* A working tree write that backs up the value a key has after the write.
write_changes_backs_up_new_value(txn, backup_key_cache, changes) ==
    LET applied == write_changes_loop(txn, backup_key_cache, changes, <<>>)
    IN  [applied EXCEPT !.reverse_changes =
            [i \in 1..Len(@) |->
                <<@[i][1], IF @[i][1] \in DOMAIN applied.txn
                           THEN applied.txn[@[i][1]]
                           ELSE serialize_remove>>]]

\* A working tree write that stores the Remove value under a removed key.
write_changes_stores_removes(txn, backup_key_cache, changes) ==
    LET applied == write_changes_loop(txn, backup_key_cache, changes, <<>>)
        written == {changes[i][1] : i \in 1..Len(changes)}
    IN  [applied EXCEPT !.txn =
            [key_bytes \in (DOMAIN applied.txn) \cup written |->
                IF key_bytes \in DOMAIN applied.txn
                THEN applied.txn[key_bytes]
                ELSE serialize_remove]]

\* Applies changes to the working tree; returns the tree and the reverse changes
\* of the keys that are not in the backup key cache.
write_changes_to_working_tree(txn, backup_key_cache, changes) ==
    write_changes_loop(txn, backup_key_cache, changes, <<>>)

\* ---------------------------------------------------------------- backup_tree.rs

\* An open that starts with an empty cache whatever the backup tree holds.
open_backup_tree_unscanned(tree) ==
    {}

\* Scans the backup tree and decodes every key into the cache.
open_backup_tree(tree) ==
    {from_sled_key(key_bytes) : key_bytes \in DOMAIN tree}

RECURSIVE write_changes_to_backup_tree(_, _)
write_changes_to_backup_tree(txn, changes) ==
    IF changes = <<>> THEN txn
    ELSE write_changes_to_backup_tree(
             TreeInsert(txn, Head(changes)[1], Head(changes)[2]), Tail(changes))

RECURSIVE commit_backup_loop(_, _, _)
commit_backup_loop(txn, keys, changes) ==
    IF keys = <<>>
    THEN [txn |-> txn, changes |-> changes, panic |-> FALSE]
    ELSE LET key == Head(keys)
             change == TreeGet(txn, as_sled_key(key))
         IN  IF change # None
             THEN commit_backup_loop(TreeRemove(txn, as_sled_key(key)), Tail(keys),
                      TreeInsert(changes, key, deserialize(unwrap(change))))
             ELSE [txn |-> txn, changes |-> changes, panic |-> TRUE]

\* A commit_backup that drains the backup and returns no changes.
commit_backup_loses_changes(txn, keys) ==
    [commit_backup_loop(txn, SortedKeys(keys), EmptyTree) EXCEPT !.changes = EmptyTree]

\* Drains the backup entries named by the cache into a VersionChanges map;
\* panic is the "BUG: failed to get change backup" branch.
commit_backup(txn, keys) ==
    commit_backup_loop(txn, SortedKeys(keys), EmptyTree)

RECURSIVE clear_backup_loop(_, _)
clear_backup_loop(txn, keys) ==
    IF keys = <<>> THEN txn
    ELSE clear_backup_loop(TreeRemove(txn, as_sled_key(Head(keys))), Tail(keys))

\* A clear_backup that removes nothing.
clear_backup_skipped(txn, keys) ==
    txn

clear_backup(txn, keys) ==
    clear_backup_loop(txn, SortedKeys(keys))

\* ---------------------------------------------------------------- version_change_tree.rs
\* A VersionChanges is a BTreeMap from key to change.  The archive holds its
\* serialized form; the model stores the map.

RECURSIVE VersionChanges_from_loop(_, _)
VersionChanges_from_loop(changes, map) ==
    IF changes = <<>> THEN map
    ELSE VersionChanges_from_loop(Tail(changes),
             TreeInsert(map, from_sled_key(Head(changes)[1]), deserialize(Head(changes)[2])))

\* A conversion that keeps the Insert entries only.
VersionChanges_from_inserts(changes) ==
    VersionChanges_from_loop(
        SelectSeq(changes, LAMBDA entry : entry[2].archived = "Insert"), EmptyTree)

\* A conversion that keeps no entry.
VersionChanges_from_nothing(changes) ==
    EmptyTree

\* impl From<&EncodedChanges> for VersionChanges
VersionChanges_from(changes) ==
    VersionChanges_from_loop(changes, EmptyTree)

\* An archive_version that stores nothing.
archive_version_dropped(txn, version, changes) ==
    txn

archive_version(txn, version, changes) ==
    TreeInsert(txn, into_sled_key(version), changes)

\* A remove_archived_version that returns the entry and leaves it in the tree.
remove_archived_version_kept(txn, version) ==
    [bytes |-> TreeGet(txn, into_sled_key(version)), txn |-> txn]

\* Returns the removed entry (an Option) and the tree without it.
remove_archived_version(txn, version) ==
    [bytes |-> TreeGet(txn, into_sled_key(version)),
     txn |-> TreeRemove(txn, into_sled_key(version))]

\* ---------------------------------------------------------------- version_graph_tree.rs

VersionNode(parent_version) ==
    [parent_version |-> parent_version]

link_version(txn, version, node) ==
    TreeInsert(txn, into_sled_key(version), node)

\* Walks the parent pointers from version to the root.  ok is FALSE when a node
\* is missing on the way; a walk that comes back to a version it has seen
\* would never end and is cut as not ok too.
RECURSIVE find_path_to_root(_, _, _)
find_path_to_root(txn, version, chain) ==
    LET node == TreeGet(txn, into_sled_key(version))
    IN  IF node = None \/ \E i \in 1..Len(chain) : chain[i] = version
        THEN [ok |-> FALSE, chain |-> chain]
        ELSE IF unwrap(node).parent_version = None
        THEN [ok |-> TRUE, chain |-> Append(chain, version)]
        ELSE find_path_to_root(txn, unwrap(unwrap(node).parent_version),
                 Append(chain, version))

\* The index of the first version of chain a that is also in chain b; 0 if none.
LowestCommonAncestor(a, b) ==
    LET common == {i \in 1..Len(a) : \E j \in 1..Len(b) : b[j] = a[i]}
    IN  IF common = {} THEN 0
        ELSE CHOOSE i \in common : \A other \in common : i <= other

\* The path from start up to the lowest common ancestor and down to finish,
\* with the graph parent of finish.
find_path_between_versions(txn, start_version, finish_version) ==
    LET a == find_path_to_root(txn, start_version, <<>>)
        b == find_path_to_root(txn, finish_version, <<>>)
        ia == LowestCommonAncestor(a.chain, b.chain)
        ib == CHOOSE j \in 1..Len(b.chain) : b.chain[j] = a.chain[ia]
        down == [i \in 1..(ib - 1) |-> b.chain[ib - i]]
    IN  IF ~a.ok \/ ~b.ok
        THEN [abort |-> Some("NoPathExistsToRoot"), path |-> <<>>, end_parent |-> None]
        ELSE IF ia = 0
        THEN [abort |-> Some("NoPathExists"), path |-> <<>>, end_parent |-> None]
        ELSE [abort |-> None,
              path |-> SubSeq(a.chain, 1, ia) \o down,
              end_parent |-> txn[into_sled_key(finish_version)].parent_version]

\* ---------------------------------------------------------------- meta_tree.rs

GridDbMetadata(grandparent_version, parent_version, working_version) ==
    [grandparent_version |-> grandparent_version,
     parent_version |-> parent_version,
     working_version |-> working_version]

write_meta(txn, meta) ==
    TreeInsert(txn, "meta", meta)

read_meta(txn) ==
    TreeGet(txn, "meta")

\* Opens the meta tree: the stored metadata, or on first open a working
\* version with a fresh id and no parent.
open_meta_tree(tree, id_counter) ==
    IF read_meta(tree) # None
    THEN [tree |-> tree, cached_meta |-> unwrap(read_meta(tree)), id_counter |-> id_counter]
    ELSE LET meta == GridDbMetadata(None, None, Version_new(id_counter))
         IN  [tree |-> write_meta(tree, meta), cached_meta |-> meta,
              id_counter |-> id_counter + 1]

\* ---------------------------------------------------------------- db.rs: GridDb
\* self is the GridDb: its five trees, its two in-memory fields, and the id
\* counter of the sled::Db the trees live in.

\* An open on a sled::Db whose id generation starts again after the first id
\* at every open.
GridDb_open_resets_ids(db) ==
    LET meta == open_meta_tree(db.meta_tree, db.id_counter)
    IN  [meta_tree |-> meta.tree,
         working_tree |-> db.working_tree,
         backup_tree |-> db.backup_tree,
         version_change_tree |-> db.version_change_tree,
         version_graph_tree |-> db.version_graph_tree,
         backup_key_cache |-> open_backup_tree(db.backup_tree),
         cached_meta |-> meta.cached_meta,
         id_counter |-> 1]

\* db is the sled::Db: the trees on disk and the id counter.
GridDb_open(db) ==
    LET meta == open_meta_tree(db.meta_tree, db.id_counter)
    IN  [meta_tree |-> meta.tree,
         working_tree |-> db.working_tree,
         backup_tree |-> db.backup_tree,
         version_change_tree |-> db.version_change_tree,
         version_graph_tree |-> db.version_graph_tree,
         backup_key_cache |-> open_backup_tree(db.backup_tree),
         cached_meta |-> meta.cached_meta,
         id_counter |-> meta.id_counter]

\* The transaction of write_working_version over the working and backup trees.
write_transaction(self, changes) ==
    LET applied == write_changes_to_working_tree(
                       self.working_tree, self.backup_key_cache, changes)
        reverse_changes == applied.reverse_changes
        new_backup_keys == [i \in 1..Len(reverse_changes) |->
                               from_sled_key(reverse_changes[i][1])]
    IN  [self |-> [self EXCEPT
                      !.working_tree = applied.txn,
                      !.backup_tree = write_changes_to_backup_tree(@, reverse_changes)],
         new_backup_keys |-> new_backup_keys]

\* A write that never adds the new keys to the backup key cache.
write_without_cache_update(self, changes) ==
    write_transaction(self, changes).self

write_working_version(self, changes) ==
    LET txn == write_transaction(self, changes)
    IN  [txn.self EXCEPT !.backup_key_cache =
            @ \cup {txn.new_backup_keys[i] : i \in 1..Len(txn.new_backup_keys)}]

read_working_version(self, key) ==
    TreeGet(self.working_tree, as_sled_key(key))

\* The transaction of commit_working_version and the two assignments after it,
\* without the test of the cache that precedes them.
commit_transaction(self) ==
    LET meta == self.cached_meta
        drained == commit_backup(self.backup_tree, self.backup_key_cache)
        new_meta == GridDbMetadata(meta.parent_version,
                        Some(meta.working_version), Version_new(self.id_counter))
    IN  [self |-> [self EXCEPT
                      !.backup_tree = IF meta.parent_version # None THEN drained.txn
                                      ELSE clear_backup(@, self.backup_key_cache),
                      !.version_graph_tree = link_version(@, meta.working_version,
                                                 VersionNode(meta.parent_version)),
                      !.version_change_tree =
                          IF meta.parent_version # None
                          THEN archive_version(@, unwrap(meta.parent_version), drained.changes)
                          ELSE @,
                      !.meta_tree = write_meta(@, new_meta),
                      !.id_counter = @ + 1,
                      !.backup_key_cache = {},
                      !.cached_meta = new_meta],
         result |-> "Ok", committed |-> TRUE]

\* A commit that runs its transaction also when the cache is empty.
commit_without_empty_check(self) ==
    commit_transaction(self)

\* A commit that keeps the working version it has just linked.
commit_keeps_working_version(self) ==
    IF self.backup_key_cache = {}
    THEN [self |-> self, result |-> "Ok", committed |-> FALSE]
    ELSE LET commit == commit_transaction(self)
             new_meta == [commit.self.cached_meta EXCEPT
                             !.working_version = self.cached_meta.working_version]
         IN  [commit EXCEPT !.self.cached_meta = new_meta,
                            !.self.meta_tree = write_meta(self.meta_tree, new_meta)]

\* A commit that links the working version as its own parent.
commit_links_version_to_itself(self) ==
    IF self.backup_key_cache = {}
    THEN [self |-> self, result |-> "Ok", committed |-> FALSE]
    ELSE LET commit == commit_transaction(self)
         IN  [commit EXCEPT !.self.version_graph_tree =
                 link_version(@, self.cached_meta.working_version,
                     VersionNode(Some(self.cached_meta.working_version)))]

\* A commit that leaves parent_version as it was.
commit_keeps_parent_version(self) ==
    IF self.backup_key_cache = {}
    THEN [self |-> self, result |-> "Ok", committed |-> FALSE]
    ELSE LET commit == commit_transaction(self)
             new_meta == [commit.self.cached_meta EXCEPT
                             !.parent_version = self.cached_meta.parent_version]
         IN  [commit EXCEPT !.self.cached_meta = new_meta,
                            !.self.meta_tree = write_meta(self.meta_tree, new_meta)]

\* A commit that links every version without a parent.
commit_links_without_parent(self) ==
    IF self.backup_key_cache = {}
    THEN [self |-> self, result |-> "Ok", committed |-> FALSE]
    ELSE LET commit == commit_transaction(self)
         IN  [commit EXCEPT !.self.version_graph_tree =
                 link_version(@, self.cached_meta.working_version, VersionNode(None))]

\* A commit whose transaction empties the working tree.
commit_clears_working_tree(self) ==
    IF self.backup_key_cache = {}
    THEN [self |-> self, result |-> "Ok", committed |-> FALSE]
    ELSE LET commit == commit_transaction(self)
         IN  [commit EXCEPT !.self.working_tree = EmptyTree]

\* committed tells whether the transaction ran and committed.
commit_working_version(self) ==
    IF self.backup_key_cache = {}
    THEN [self |-> self, result |-> "Ok", committed |-> FALSE]
    ELSE LET meta == self.cached_meta
             drained == commit_backup(self.backup_tree, self.backup_key_cache)
             backup_txn == IF meta.parent_version # None
                           THEN drained.txn
                           ELSE clear_backup(self.backup_tree, self.backup_key_cache)
             changes_txn == IF meta.parent_version # None
                            THEN archive_version(self.version_change_tree,
                                     unwrap(meta.parent_version), drained.changes)
                            ELSE self.version_change_tree
             graph_txn == link_version(self.version_graph_tree, meta.working_version,
                              VersionNode(meta.parent_version))
             new_meta == GridDbMetadata(meta.parent_version,
                             Some(meta.working_version), Version_new(self.id_counter))
         IN  IF meta.parent_version # None /\ drained.panic
             THEN [self |-> self, result |-> "Panic", committed |-> FALSE]
             ELSE [self |-> [self EXCEPT
                               !.backup_tree = backup_txn,
                               !.version_graph_tree = graph_txn,
                               !.version_change_tree = changes_txn,
                               !.meta_tree = write_meta(@, new_meta),
                               !.id_counter = @ + 1,
                               !.backup_key_cache = {},
                               !.cached_meta = new_meta],
                   result |-> "Ok", committed |-> TRUE]

\* The encoder filled from an archived VersionChanges, key by key.
RECURSIVE encoder_from_changes(_, _, _)
encoder_from_changes(added_changes, changes, keys) ==
    IF keys = <<>> THEN added_changes
    ELSE encoder_from_changes(add_change(added_changes, Head(keys), changes[Head(keys)]),
             changes, Tail(keys))

\* A replay that stops after the first window of the path.
replay_first_window(change_txn, working_txn, path, i) ==
    IF i >= Len(path) \/ i >= 2
    THEN [abort |-> None, change_txn |-> change_txn, working_txn |-> working_txn]
    ELSE LET removed == remove_archived_version(change_txn, path[i + 1])
             changes == unwrap(removed.bytes)
             applied == write_changes_to_working_tree(working_txn, {},
                            encode(encoder_from_changes(ChangeEncoder_default, changes,
                                       SortedKeys(DOMAIN changes))))
         IN  [abort |-> IF removed.bytes = None
                        THEN Some("MissingVersionChanges") ELSE None,
              change_txn |-> IF removed.bytes = None THEN change_txn
                             ELSE archive_version(removed.txn, path[i],
                                      VersionChanges_from(applied.reverse_changes)),
              working_txn |-> IF removed.bytes = None THEN working_txn ELSE applied.txn]

\* The replay loop of branch_from_version over the windows (path[i], path[i+1]).
RECURSIVE replay_path(_, _, _, _)
replay_path(change_txn, working_txn, path, i) ==
    IF i >= Len(path)
    THEN [abort |-> None, change_txn |-> change_txn, working_txn |-> working_txn]
    ELSE LET prev_version == path[i]
             next_version == path[i + 1]
             removed == remove_archived_version(change_txn, next_version)
         IN  IF removed.bytes = None
             THEN [abort |-> Some("MissingVersionChanges"),
                   change_txn |-> change_txn, working_txn |-> working_txn]
             ELSE LET changes == unwrap(removed.bytes)
                      encoder == encoder_from_changes(ChangeEncoder_default, changes,
                                     SortedKeys(DOMAIN changes))
                      applied == write_changes_to_working_tree(working_txn, {},
                                     encode(encoder))
                      prev_version_changes == VersionChanges_from(applied.reverse_changes)
                  IN  replay_path(
                          archive_version(removed.txn, prev_version, prev_version_changes),
                          applied.txn, path, i + 1)

\* What branch_from_version does after its commit, from the GridDb the commit
\* left: the transaction over the meta, graph, change and working trees and
\* the assignment of cached_meta.
branch_transaction(after, new_parent_version) ==
    LET old_meta == after.cached_meta
        path == find_path_between_versions(after.version_graph_tree,
                    unwrap(old_meta.parent_version), new_parent_version)
        replayed == replay_path(after.version_change_tree, after.working_tree,
                        path.path, 1)
        new_meta == GridDbMetadata(path.end_parent, Some(new_parent_version),
                        Version_new(after.id_counter))
    IN  IF old_meta.parent_version = None
        THEN [self |-> after, result |-> "Ok", branched |-> FALSE]
        ELSE IF path.abort # None
        THEN [self |-> after, result |-> unwrap(path.abort), branched |-> FALSE]
        ELSE IF replayed.abort # None
        THEN [self |-> after, result |-> unwrap(replayed.abort), branched |-> FALSE]
        ELSE [self |-> [after EXCEPT
                          !.meta_tree = write_meta(@, new_meta),
                          !.version_change_tree = replayed.change_txn,
                          !.working_tree = replayed.working_txn,
                          !.id_counter = @ + 1,
                          !.cached_meta = new_meta],
              result |-> "Ok", branched |-> TRUE]

\* The result of branch_from_version when its commit returned commit and the
\* rest of it returned branch.
branch_result(commit, branch) ==
    IF commit.result # "Ok"
    THEN [self |-> commit.self, result |-> commit.result,
          committed |-> FALSE, branched |-> FALSE]
    ELSE [self |-> branch.self, result |-> branch.result,
          committed |-> commit.committed, branched |-> branch.branched]

\* A branch_from that generates no id: the new metadata keeps the working
\* version the commit left.
branch_reuses_working_version(self, new_parent_version) ==
    LET commit == commit_working_version(self)
        branch == branch_transaction(commit.self, new_parent_version)
        new_meta == [branch.self.cached_meta EXCEPT
                        !.working_version = commit.self.cached_meta.working_version]
    IN  branch_result(commit,
            IF branch.branched
            THEN [branch EXCEPT !.self.cached_meta = new_meta,
                                !.self.meta_tree = write_meta(@, new_meta),
                                !.self.id_counter = commit.self.id_counter]
            ELSE branch)

\* A branch_from that keeps the grandparent of the metadata it started from.
branch_keeps_grandparent(self, new_parent_version) ==
    LET commit == commit_working_version(self)
        branch == branch_transaction(commit.self, new_parent_version)
        new_meta == [branch.self.cached_meta EXCEPT
                        !.grandparent_version = commit.self.cached_meta.grandparent_version]
    IN  branch_result(commit,
            IF branch.branched
            THEN [branch EXCEPT !.self.cached_meta = new_meta,
                                !.self.meta_tree = write_meta(@, new_meta)]
            ELSE branch)

\* A branch_from that reads the metadata before its commit: without a parent
\* it stops after the commit.
branch_reads_meta_before_commit(self, new_parent_version) ==
    IF self.cached_meta.parent_version = None
    THEN [self |-> commit_working_version(self).self,
          result |-> commit_working_version(self).result,
          committed |-> commit_working_version(self).committed, branched |-> FALSE]
    ELSE [self |-> self, result |-> "NoPathExists", committed |-> FALSE, branched |-> FALSE]

\* committed tells whether the leading commit committed a version, branched
\* whether the branch transaction committed.
branch_from_version(self, new_parent_version) ==
    LET commit == commit_working_version(self)
        after == commit.self
        old_meta == after.cached_meta
        path == find_path_between_versions(after.version_graph_tree,
                    unwrap(old_meta.parent_version), new_parent_version)
        replayed == replay_path(after.version_change_tree, after.working_tree,
                        path.path, 1)
        new_meta == GridDbMetadata(path.end_parent, Some(new_parent_version),
                        Version_new(after.id_counter))
    IN  IF commit.result # "Ok"
        THEN [self |-> after, result |-> commit.result,
              committed |-> FALSE, branched |-> FALSE]
        ELSE IF old_meta.parent_version = None
        THEN [self |-> after, result |-> "Ok",
              committed |-> commit.committed, branched |-> FALSE]
        ELSE IF path.abort # None
        THEN [self |-> after, result |-> unwrap(path.abort),
              committed |-> commit.committed, branched |-> FALSE]
        ELSE IF replayed.abort # None
        THEN [self |-> after, result |-> unwrap(replayed.abort),
              committed |-> commit.committed, branched |-> FALSE]
        ELSE [self |-> [after EXCEPT
                          !.meta_tree = write_meta(@, new_meta),
                          !.version_change_tree = replayed.change_txn,
                          !.working_tree = replayed.working_txn,
                          !.id_counter = @ + 1,
                          !.cached_meta = new_meta],
              result |-> "Ok", committed |-> commit.committed, branched |-> TRUE]

\* ---------------------------------------------------------------- state

VARIABLES
    meta_tree,            \* <name>-meta
    working_tree,         \* <name>-working
    backup_tree,          \* <name>-backup
    version_change_tree,  \* <name>-version-changes
    version_graph_tree,   \* <name>-version-graph
    id_counter,           \* the next id of sled's generate_id
    backup_key_cache,     \* GridDb::backup_key_cache.keys
    cached_meta,          \* GridDb::cached_meta
    writes,               \* history: the number of write calls so far
    last,                 \* the last operation and what it returned
    committed_state,      \* history: version number -> what read returned at its commit
    touched,              \* history: keys written since the working version was opened
    codec                 \* the key conversion under way (None while the database runs)

vars ==
    <<meta_tree, working_tree, backup_tree, version_change_tree, version_graph_tree,
      id_counter, backup_key_cache, cached_meta, writes, last, committed_state, touched,
      codec>>

Self ==
    [meta_tree |-> meta_tree,
     working_tree |-> working_tree,
     backup_tree |-> backup_tree,
     version_change_tree |-> version_change_tree,
     version_graph_tree |-> version_graph_tree,
     backup_key_cache |-> backup_key_cache,
     cached_meta |-> cached_meta,
     id_counter |-> id_counter]

\* The next state holds the GridDb new.
Becomes(new) ==
    /\ meta_tree' = new.meta_tree
    /\ working_tree' = new.working_tree
    /\ backup_tree' = new.backup_tree
    /\ version_change_tree' = new.version_change_tree
    /\ version_graph_tree' = new.version_graph_tree
    /\ backup_key_cache' = new.backup_key_cache
    /\ cached_meta' = new.cached_meta
    /\ id_counter' = new.id_counter

\* ---------------------------------------------------------------- inputs

Keys ==
    {DbKey3i32_new(level, U128(0)) : level \in 1..MaxLevel}

Changes ==
    {Insert(<<byte>>) : byte \in 0..MaxByte} \cup {Remove}

\* The add_change calls that build one batch.
AddSeqs ==
    UNION {[1..n -> Keys \X Changes] : n \in 0..MaxAdds}

Versions ==
    {Version_new(number) : number \in 0..MaxVersion}

RECURSIVE encoder_after(_, _)
encoder_after(added_changes, adds) ==
    IF adds = <<>> THEN added_changes
    ELSE encoder_after(add_change(added_changes, Head(adds)[1], Head(adds)[2]), Tail(adds))

\* The EncodedChanges a ChangeEncoder makes of a sequence of add_change calls.
EncodedChanges(adds) ==
    encode(encoder_after(ChangeEncoder_default, adds))

\* The batches write is called with.
Batches ==
    {EncodedChanges(adds) : adds \in AddSeqs}

\* The keys a batch holds a change for.
BatchKeys(changes) ==
    {from_sled_key(changes[i][1]) : i \in 1..Len(changes)}

\* What read returns for every key of the model.
ReadAll(self) ==
    [key \in Keys |-> read_working_version(self, key)]

Result(op, result) ==
    [op |-> op, result |-> result]

\* ---------------------------------------------------------------- actions

\* A fresh sled::Db: no tree holds anything and no id was generated.
FreshDb ==
    [meta_tree |-> EmptyTree, working_tree |-> EmptyTree, backup_tree |-> EmptyTree,
     version_change_tree |-> EmptyTree, version_graph_tree |-> EmptyTree,
     id_counter |-> 0]

\* The state after GridDb::open on a fresh database.
Init ==
    /\ meta_tree = GridDb_open(FreshDb).meta_tree
    /\ working_tree = GridDb_open(FreshDb).working_tree
    /\ backup_tree = GridDb_open(FreshDb).backup_tree
    /\ version_change_tree = GridDb_open(FreshDb).version_change_tree
    /\ version_graph_tree = GridDb_open(FreshDb).version_graph_tree
    /\ backup_key_cache = GridDb_open(FreshDb).backup_key_cache
    /\ cached_meta = GridDb_open(FreshDb).cached_meta
    /\ id_counter = GridDb_open(FreshDb).id_counter
    /\ writes = 0
    /\ last = Result("open", "Ok")
    /\ committed_state = EmptyTree
    /\ touched = {}
    /\ codec = None

\* The history of a commit or branch that opened a new working version: the
\* state of every version linked into the graph is recorded when it is linked,
\* and the new working version has no writes yet.
CommitHistory(self, opened_version) ==
    IF opened_version
    THEN /\ committed_state' =
                [number \in {n \in 0..MaxVersion :
                                into_sled_key(Version_new(n)) \in DOMAIN version_graph_tree'} |->
                    IF number \in DOMAIN committed_state
                    THEN committed_state[number]
                    ELSE ReadAll(self)]
         /\ touched' = {}
    ELSE UNCHANGED <<committed_state, touched>>

\* write_working_version with a batch made by a ChangeEncoder.
Write(changes) ==
    /\ writes < MaxWrites
    /\ writes' = writes + 1
    /\ Becomes(write_working_version(Self, changes))
    /\ last' = Result("write", "Ok")
    /\ touched' = touched \cup BatchKeys(changes)
    /\ UNCHANGED <<committed_state, codec>>

Commit ==
    \E commit \in {commit_working_version(Self)} :
        /\ commit.self.id_counter <= MaxVersion + 1
        /\ Becomes(commit.self)
        /\ last' = Result("commit", commit.result)
        /\ CommitHistory(Self, commit.committed)
        /\ UNCHANGED <<writes, codec>>

BranchFrom(new_parent_version) ==
    \E branch \in {branch_from_version(Self, new_parent_version)} :
        /\ branch.self.id_counter <= MaxVersion + 1
        /\ Becomes(branch.self)
        /\ last' = Result("branch_from", branch.result)
        /\ CommitHistory(Self, branch.committed \/ branch.branched)
        /\ UNCHANGED <<writes, codec>>

\* The process stops between two operations, what it held in memory is lost,
\* and GridDb::open runs on the database it left behind.
Reopen ==
    /\ Becomes(GridDb_open(Self))
    /\ last' = Result("open", "Ok")
    /\ UNCHANGED <<committed_state, touched, writes, codec>>

\* The process stops after the transaction of a write committed and before the
\* backup key cache is updated; then GridDb::open runs.
WriteCrashReopen(changes) ==
    /\ writes < MaxWrites
    /\ writes' = writes + 1
    /\ Becomes(GridDb_open(write_transaction(Self, changes).self))
    /\ last' = Result("open", "Ok")
    /\ touched' = touched \cup BatchKeys(changes)
    /\ UNCHANGED <<committed_state, codec>>

Next ==
    \/ \E changes \in Batches : Write(changes)
    \/ Commit
    \/ \E new_parent_version \in Versions : BranchFrom(new_parent_version)
    \/ Reopen
    \/ \E changes \in Batches : WriteCrashReopen(changes)

Spec ==
    Init /\ [][Next]_vars

\* ---------------------------------------------------------------- views of the state

AbortReasons ==
    {"NoPathExists", "NoPathExistsToRoot", "MissingVersionChanges"}

\* Whether the version graph has a node for version.
Linked(graph, version) ==
    into_sled_key(version) \in DOMAIN graph

\* The versions of the model that have a node in the version graph.
LinkedVersions ==
    {version \in Versions : Linked(version_graph_tree, version)}

\* The versions of the model that have an entry in the change archive.
ArchivedVersions ==
    {version \in Versions : into_sled_key(version) \in DOMAIN version_change_tree}

\* The graph parent of a linked version (an Option).
GraphParent(version) ==
    version_graph_tree[into_sled_key(version)].parent_version

\* What read returned for every key when version was committed.
StateOf(version) ==
    committed_state[version.number]

\* What read returns on an empty working tree.
EmptyState ==
    [key \in Keys |-> None]

\* What read would return after one change to a key: an Insert sets the key,
\* a Remove deletes it.
ReadAfter(change) ==
    IF change.tag = "Insert" THEN Some(serialize(change)) ELSE None

\* What read returns once the entries of a key -> change map are applied to a state.
ApplyChanges(changes, state) ==
    [key \in Keys |-> IF key \in DOMAIN changes THEN ReadAfter(changes[key]) ELSE state[key]]

\* The backup tree as a key -> change map.
BackupChanges ==
    [key \in {from_sled_key(key_bytes) : key_bytes \in DOMAIN backup_tree} |->
        deserialize(backup_tree[as_sled_key(key)])]

\* ---------------------------------------------------------------- claims

\* C1: whenever branch_from(v) returns Ok and v has a node in the version graph,
\* read returns for every key what it returned when v was committed.
C1_BranchRestoresCommittedState ==
    [][\A version \in Versions :
        (/\ last' = Result("branch_from", "Ok")
         /\ Linked(version_graph_tree', version)
         /\ BranchFrom(version))
        => ReadAll(Self)' = StateOf(version)']_vars

\* A branch returned Ok on a version whose state differs from the state of
\* another linked version, with a key present.
C1_Witness ==
    /\ last = Result("branch_from", "Ok")
    /\ cached_meta.parent_version # None
    /\ ReadAll(Self) # EmptyState
    /\ \E version \in LinkedVersions :
           StateOf(version) # StateOf(unwrap(cached_meta.parent_version))

\* C2: after write(batch), read returns Insert(b) for a key the batch inserts b
\* at, None for a key the batch removes, and what it returned before for every
\* key that is not in the batch.
C2_WriteThenRead ==
    [][\A changes \in Batches :
        (last' = Result("write", "Ok") /\ Write(changes)) =>
            \A key \in Keys :
                IF key \in BatchKeys(changes)
                THEN \A i \in 1..Len(changes) :
                         from_sled_key(changes[i][1]) = key =>
                             read_working_version(Self, key)' =
                                 ReadAfter(deserialize(changes[i][2]))
                ELSE read_working_version(Self, key)' = read_working_version(Self, key)]_vars

\* A write removed one key that was present and left another key present.
C2_Witness ==
    /\ last = Result("write", "Ok")
    /\ \E key \in touched :
           /\ read_working_version(Self, key) = None
           /\ as_sled_key(key) \in DOMAIN backup_tree
           /\ backup_tree[as_sled_key(key)].archived = "Insert"
    /\ \E key \in Keys : read_working_version(Self, key) # None

\* C3 (I3): applying the backup entries to the working tree gives the state of
\* parent_version, or the empty map when parent_version is None.
C3_BackupRestoresParent ==
    ApplyChanges(BackupChanges, ReadAll(Self)) =
        IF cached_meta.parent_version = None
        THEN EmptyState
        ELSE StateOf(unwrap(cached_meta.parent_version))

\* The working version has a parent, a key written twice, and differs from it.
C3_Witness ==
    /\ cached_meta.parent_version # None
    /\ writes >= 3
    /\ \E key \in touched :
           /\ backup_tree[as_sled_key(key)].archived = "Insert"
           /\ read_working_version(Self, key) # Some(backup_tree[as_sled_key(key)])
    /\ ReadAll(Self) # StateOf(unwrap(cached_meta.parent_version))

\* C4 (I1): the keys of the backup key cache are the keys of the backup tree,
\* and commit_backup never reaches its panic.
C4_CacheMirrorsBackup ==
    /\ {as_sled_key(key) : key \in backup_key_cache} = DOMAIN backup_tree
    /\ last.result # "Panic"

\* A commit drained a backup of two keys into the archive.
C4_Witness ==
    /\ last = Result("commit", "Ok")
    /\ \E version \in ArchivedVersions :
           Cardinality(DOMAIN version_change_tree[into_sled_key(version)]) = 2

\* C5: after the process stops, also between the transaction of a write and the
\* update of the cache, and the database is opened again, the rebuilt cache
\* holds the keys of the backup tree, which are the keys written since the
\* last commit.
C5_ReopenRebuildsCache ==
    last.op = "open" =>
        /\ backup_key_cache = {from_sled_key(key_bytes) : key_bytes \in DOMAIN backup_tree}
        /\ backup_key_cache = touched

\* The database was opened again with two keys written since the last commit.
C5_Witness ==
    /\ last.op = "open"
    /\ cached_meta.parent_version # None
    /\ Cardinality(touched) = 2

\* C6 (I2): a key has a backup entry iff a write since the working version was
\* opened held a change for it, a Remove of an absent key included.
C6_BackupHoldsTouchedKeys ==
    DOMAIN backup_tree = {as_sled_key(key) : key \in touched}

\* The only write so far removed a key that was absent.
C6_Witness ==
    /\ writes = 1
    /\ last = Result("write", "Ok")
    /\ working_tree = EmptyTree
    /\ backup_tree # EmptyTree

TowardParent(version) ==
    LET chain == find_path_to_root(version_graph_tree,
                     unwrap(cached_meta.parent_version), <<>>).chain
        above == {i \in 2..Len(chain) : chain[i] = version}
    IN  IF above # {}
        THEN Some(chain[(CHOOSE i \in above : TRUE) - 1])
        ELSE GraphParent(version)

C9_Claimed ==
    [][\A version \in Versions :
        (last'.op = "branch_from" /\ last'.result \in AbortReasons /\ BranchFrom(version))
        => UNCHANGED <<meta_tree, working_tree, backup_tree, version_change_tree,
                       version_graph_tree, cached_meta, backup_key_cache>>]_vars

C11_EmptyCommitIsNoOp ==
    [][(last'.op = "commit" /\ backup_key_cache = {} /\ Commit)
       => /\ last'.result = "Ok"
          /\ UNCHANGED <<meta_tree, working_tree, backup_tree, version_change_tree,
                         version_graph_tree, id_counter, backup_key_cache, cached_meta>>]_vars

\* A commit returned while the parent version has a child in the version
\* graph: the parent was reached by a branch, and the commit found nothing to
\* commit.
C11_Witness ==
    /\ last = Result("commit", "Ok")
    /\ cached_meta.parent_version # None
    /\ \E version \in LinkedVersions : GraphParent(version) = cached_meta.parent_version
    /\ working_tree # EmptyTree

\* C12: a commit with a non-empty backup, from metadata {g, p, w}, links w
\* into the version graph with parent p and leaves the metadata
\* {grandparent p, parent Some(w), working n} with n a newly generated id;
\* afterwards the backup tree and the backup cache are empty.
C12_CommitLinksAndShiftsMeta ==
    [][(last'.op = "commit" /\ backup_key_cache # {} /\ Commit)
       => /\ last'.result = "Ok"
          /\ version_graph_tree' =
                 TreeInsert(version_graph_tree, into_sled_key(cached_meta.working_version),
                     [parent_version |-> cached_meta.parent_version])
          /\ cached_meta' = [grandparent_version |-> cached_meta.parent_version,
                             parent_version |-> Some(cached_meta.working_version),
                             working_version |-> cached_meta'.working_version]
          /\ read_meta(meta_tree') = Some(cached_meta')
          /\ cached_meta'.working_version.number = id_counter
          /\ id_counter' = id_counter + 1
          /\ cached_meta'.working_version # cached_meta.working_version
          /\ ~Linked(version_graph_tree', cached_meta'.working_version)
          /\ backup_tree' = EmptyTree
          /\ backup_key_cache' = {}]_vars

\* A commit has linked a version whose parent is itself a linked version with
\* a parent.
C12_Witness ==
    /\ last = Result("commit", "Ok")
    /\ cached_meta.parent_version # None
    /\ cached_meta.grandparent_version # None
    /\ GraphParent(unwrap(cached_meta.grandparent_version)) # None
    /\ cached_meta.working_version.number = id_counter - 1

C14_BranchWritesMeta ==
    [][\A target \in Versions :
        (/\ last' = Result("branch_from", "Ok")
         /\ (cached_meta.parent_version # None \/ backup_key_cache # {})
         /\ BranchFrom(target))
        => /\ Linked(version_graph_tree', target)
           /\ cached_meta' =
                  [grandparent_version |->
                       version_graph_tree'[into_sled_key(target)].parent_version,
                   parent_version |-> Some(target),
                   working_version |-> cached_meta'.working_version]
           /\ read_meta(meta_tree') = Some(cached_meta')
           /\ cached_meta'.working_version.number = id_counter' - 1
           /\ cached_meta'.working_version.number >= id_counter
           /\ ~Linked(version_graph_tree', cached_meta'.working_version)
           /\ backup_tree' = EmptyTree
           /\ backup_key_cache' = {}]_vars

\* A branch_from returned Ok for a target that is not the root and that is not
\* the version committed last, with the working tree in the target's state.
C14_Witness ==
    /\ last = Result("branch_from", "Ok")
    /\ cached_meta.parent_version # None
    /\ cached_meta.grandparent_version # None
    /\ \E version \in LinkedVersions :
           version.number > unwrap(cached_meta.parent_version).number
    /\ cached_meta.working_version.number = id_counter - 1

\* C15: in every reachable state with parent_version = Some(p), the version
\* graph has a node for p and the parent of that node is the
\* grandparent_version of the metadata.
C15_MetaAgreesWithGraph ==
    cached_meta.parent_version # None =>
        /\ Linked(version_graph_tree, unwrap(cached_meta.parent_version))
        /\ GraphParent(unwrap(cached_meta.parent_version)) = cached_meta.grandparent_version

\* The parent was reached by a branch to a version whose graph parent is not
\* the version that was the parent before.
C15_Witness ==
    /\ last = Result("branch_from", "Ok")
    /\ cached_meta.parent_version # None
    /\ cached_meta.grandparent_version # None
    /\ Cardinality({version \in LinkedVersions :
                       GraphParent(version) = cached_meta.grandparent_version}) >= 2

\* C16 as claimed: from any state with working version w, branch_from(v) for a
\* committed version v followed by branch_from(w) leaves every read as it was
\* before the first branch_from.
C16_Claimed ==
    \A version \in LinkedVersions :
        \E first \in {branch_from_version(Self, version)} :
            ReadAll(branch_from_version(first.self, cached_meta.working_version).self)
                = ReadAll(Self)

\* C16 amended: branch_from(v) for a committed version v returns Ok.  From a
\* state with uncommitted writes it commits the working version w, and a
\* following branch_from(w) returns Ok and leaves every read as it was before
\* the first branch_from.  From a state without uncommitted writes w is
\* abandoned without a graph node: a following branch_from(w) returns an abort
\* reason and leaves the reads of v, while branch_from(p), p the parent
\* version of the starting state, returns Ok and leaves every read as it was.
C16_BranchAndBack ==
    \A version \in LinkedVersions :
        \E first \in {branch_from_version(Self, version)} :
            \E second \in {branch_from_version(first.self, cached_meta.working_version)} :
                /\ first.result = "Ok"
                /\ IF backup_key_cache # {}
                   THEN /\ second.result = "Ok"
                        /\ ReadAll(second.self) = ReadAll(Self)
                   ELSE /\ second.result \in AbortReasons
                        /\ ReadAll(second.self) = StateOf(version)
                        /\ \E back \in {branch_from_version(first.self,
                                            unwrap(cached_meta.parent_version))} :
                               /\ back.result = "Ok"
                               /\ ReadAll(back.self) = ReadAll(Self)

\* Two branch_from calls in a row have come back to the version committed
\* before them, by way of a version of another state: the two ids between the
\* parent and the working version were generated and never linked.
C16_Witness ==
    /\ last = Result("branch_from", "Ok")
    /\ cached_meta.parent_version # None
    /\ cached_meta.working_version.number = unwrap(cached_meta.parent_version).number + 3
    /\ \A version \in LinkedVersions :
           version.number <= unwrap(cached_meta.parent_version).number
    /\ ReadAll(Self) = StateOf(unwrap(cached_meta.parent_version))
    /\ \E version \in LinkedVersions :
           StateOf(version) # StateOf(unwrap(cached_meta.parent_version))

\* C17 (I5): the working version never has a node in the version graph, and a
\* version gets its node only in the commit that retires it as the working
\* version.
C17_WorkingVersionUnlinked ==
    /\ [](~Linked(version_graph_tree, cached_meta.working_version))
    /\ [][\A version \in Versions :
            (~Linked(version_graph_tree, version) /\ Linked(version_graph_tree', version))
            => /\ version = cached_meta.working_version
               /\ cached_meta'.working_version # version
               /\ backup_key_cache # {}
               /\ last'.op \in {"commit", "branch_from"}]_vars

\* Two versions have nodes, and a version that was the working version before
\* the current one was abandoned without a node.
C17_Witness ==
    /\ Cardinality(LinkedVersions) >= 2
    /\ \E number \in 0..(cached_meta.working_version.number - 1) :
           ~Linked(version_graph_tree, Version_new(number))
    /\ backup_key_cache # {}

\* C18: the working version never decreases; when it changes, the new working
\* version is above the old one, is an id that was not generated before, and
\* has no graph node.  Every id generated so far, the working version and the
\* graph nodes among them, is below the id counter, which never decreases.
C18_WorkingVersionsIncrease ==
    /\ [](/\ cached_meta.working_version.number < id_counter
          /\ \A version \in LinkedVersions : version.number < id_counter)
    /\ [][/\ id_counter' >= id_counter
          /\ cached_meta'.working_version # cached_meta.working_version
             => /\ cached_meta'.working_version.number > cached_meta.working_version.number
                /\ cached_meta'.working_version.number >= id_counter
                /\ ~Linked(version_graph_tree', cached_meta'.working_version)]_vars

\* Ids were generated by commits and by a branch: a commit generated the
\* largest id of the model, and fewer versions than ids have a graph node.
C18_Witness ==
    /\ last = Result("commit", "Ok")
    /\ cached_meta.working_version.number = MaxVersion
    /\ Cardinality(LinkedVersions) < MaxVersion
    /\ cached_meta.working_version.number = id_counter - 1

\* ---------------------------------------------------------------- key conversions
\* DbKey::as_sled_key and DbKey::from_sled_key on their own: two keys of one
\* shape are converted to sled keys and back.

\* Values a level (u8) takes in the model.
Levels ==
    {0, 1, Byte - 1}

\* Values a sixteen-bit limb of a morton code takes in the model: each byte
\* of the limb alone, and both full.
LimbValues ==
    {1, Byte - 1, Byte, Limb - 1}

\* Morton codes of a number of limbs: zero, and every code with one limb set.
Mortons(limbs) ==
    {[i \in 1..limbs |-> 0]}
    \cup {[i \in 1..limbs |-> IF i = position THEN value ELSE 0] :
             position \in 1..limbs, value \in LimbValues}

\* Morton2i32 holds a u64, Morton3i32 a u128.
KeysOf(shape) ==
    IF shape = "DbKey2i32"
    THEN {DbKey2i32_new(level, morton) : level \in Levels, morton \in Mortons(U64Limbs)}
    ELSE {DbKey3i32_new(level, morton) : level \in Levels, morton \in Mortons(U128Limbs)}

KeyShapes ==
    {"DbKey2i32", "DbKey3i32"}

\* The impl of DbKey for the shape.
DbKey_as_sled_key(shape, key) ==
    IF shape = "DbKey2i32" THEN DbKey2i32_as_sled_key(key) ELSE as_sled_key(key)

DbKey_from_sled_key(shape, bytes) ==
    IF shape = "DbKey2i32" THEN DbKey2i32_from_sled_key(bytes) ELSE from_sled_key(bytes)

\* No database is open; two keys of one shape are given.
KeyInit ==
    /\ meta_tree = EmptyTree
    /\ working_tree = EmptyTree
    /\ backup_tree = EmptyTree
    /\ version_change_tree = EmptyTree
    /\ version_graph_tree = EmptyTree
    /\ id_counter = 0
    /\ backup_key_cache = {}
    /\ cached_meta = None
    /\ writes = 0
    /\ last = Result("new", "Ok")
    /\ committed_state = EmptyTree
    /\ touched = {}
    /\ \E shape \in KeyShapes : \E a \in KeysOf(shape) : \E b \in KeysOf(shape) :
           codec = [shape |-> shape, a |-> a, b |-> b,
                    a_sled_key |-> None, b_sled_key |-> None,
                    a_key |-> None, b_key |-> None]

\* as_sled_key on both keys.
AsSledKey ==
    /\ last.op = "new"
    /\ codec' = [codec EXCEPT
                    !.a_sled_key = Some(DbKey_as_sled_key(codec.shape, codec.a)),
                    !.b_sled_key = Some(DbKey_as_sled_key(codec.shape, codec.b))]
    /\ last' = Result("as_sled_key", "Ok")
    /\ UNCHANGED <<meta_tree, working_tree, backup_tree, version_change_tree,
                   version_graph_tree, id_counter, backup_key_cache, cached_meta,
                   writes, committed_state, touched>>

\* from_sled_key on both sled keys.
FromSledKey ==
    /\ last.op = "as_sled_key"
    /\ codec' = [codec EXCEPT
                    !.a_key = Some(DbKey_from_sled_key(codec.shape, unwrap(codec.a_sled_key))),
                    !.b_key = Some(DbKey_from_sled_key(codec.shape, unwrap(codec.b_sled_key)))]
    /\ last' = Result("from_sled_key", "Ok")
    /\ UNCHANGED <<meta_tree, working_tree, backup_tree, version_change_tree,
                   version_graph_tree, id_counter, backup_key_cache, cached_meta,
                   writes, committed_state, touched>>

KeyNext ==
    \/ AsSledKey
    \/ FromSledKey

KeySpec ==
    KeyInit /\ [][KeyNext]_vars

\* Whether a morton code held in a u128 has its most significant 32 bits clear.
FitsIn96Bits(morton) ==
    Len(morton) = U128Limbs => morton[1] = 0 /\ morton[2] = 0

\* The morton code with the most significant 32 bits of a u128 cleared.
Low96Bits(morton) ==
    [i \in 1..Len(morton) |-> IF Len(morton) = U128Limbs /\ i <= 2 THEN 0 ELSE morton[i]]

\* C19 as claimed: for every key of either shape, from_sled_key(as_sled_key(k))
\* is k.
C19_Claimed ==
    last.op = "from_sled_key" =>
        /\ unwrap(codec.a_key) = codec.a
        /\ unwrap(codec.b_key) = codec.b

\* C19 amended: from_sled_key(as_sled_key(k)) is k for every 2D key and for
\* every 3D key whose morton code is below 2^96; for any 3D key it is k with
\* the most significant 32 bits of the morton code cleared.
C19_RoundTripBelow96Bits ==
    last.op = "from_sled_key" =>
        \A pair \in {<<codec.a, unwrap(codec.a_key)>>, <<codec.b, unwrap(codec.b_key)>>} :
            /\ pair[2] = [level |-> pair[1].level, morton |-> Low96Bits(pair[1].morton)]
            /\ FitsIn96Bits(pair[1].morton) => pair[2] = pair[1]

\* A 3D key with the highest of its 96 bits set and a 3D key with the lowest
\* bit set, at the largest level, went to sled keys and back.
C19_Witness ==
    /\ last.op = "from_sled_key"
    /\ codec.shape = "DbKey3i32"
    /\ codec.a.level = Byte - 1
    /\ codec.a.morton[3] = Limb - 1
    /\ codec.b.morton[U128Limbs] = 1
    /\ codec.a_key = Some(codec.a)
    /\ codec.b_key = Some(codec.b)

\* C20 as claimed: for two keys of the same level the sled keys compare as the
\* morton codes do, and for keys of different levels as the levels do.
C20_Claimed ==
    last.op = "as_sled_key" =>
        (SeqLess(unwrap(codec.a_sled_key), unwrap(codec.b_sled_key))
         <=> IF codec.a.level = codec.b.level
             THEN SeqLess(codec.a.morton, codec.b.morton)
             ELSE codec.a.level < codec.b.level)

\* C20 amended: for two keys of the same level the sled keys compare as the
\* low 96 bits of the morton codes do, which for 2D keys and for 3D keys with
\* morton codes below 2^96 is as the morton codes do; for keys of different
\* levels they compare as the levels do.
C20_SledKeyOrder ==
    last.op = "as_sled_key" =>
        /\ SeqLess(unwrap(codec.a_sled_key), unwrap(codec.b_sled_key))
           <=> IF codec.a.level = codec.b.level
               THEN SeqLess(Low96Bits(codec.a.morton), Low96Bits(codec.b.morton))
               ELSE codec.a.level < codec.b.level
        /\ (/\ codec.a.level = codec.b.level
            /\ FitsIn96Bits(codec.a.morton)
            /\ FitsIn96Bits(codec.b.morton))
           => (SeqLess(unwrap(codec.a_sled_key), unwrap(codec.b_sled_key))
               <=> SeqLess(codec.a.morton, codec.b.morton))

\* Two 2D keys of one level whose morton codes differ in the two bytes of one
\* limb have sled keys in the order of the codes.
C20_Witness ==
    /\ last.op = "as_sled_key"
    /\ codec.shape = "DbKey2i32"
    /\ codec.a.level = codec.b.level
    /\ codec.a.morton[U64Limbs] = Byte - 1
    /\ codec.b.morton[U64Limbs] = Byte
    /\ SeqLess(unwrap(codec.a_sled_key), unwrap(codec.b_sled_key))

\* ---------------------------------------------------------------- the encoder on its own
\* ChangeEncoder::add_change and ChangeEncoder::encode on 3D keys, among them
\* keys whose morton code has bits above the 96 that a sled key holds.

EncoderMortons ==
    {U128(0), U128(1),
     [i \in 1..U128Limbs |-> IF i = 2 THEN 1 ELSE 0]}

EncoderKeys ==
    {DbKey3i32_new(level, morton) : level \in 0..1, morton \in EncoderMortons}

\* A new ChangeEncoder; no database is open.
EncoderInit ==
    /\ meta_tree = EmptyTree
    /\ working_tree = EmptyTree
    /\ backup_tree = EmptyTree
    /\ version_change_tree = EmptyTree
    /\ version_graph_tree = EmptyTree
    /\ id_counter = 0
    /\ backup_key_cache = {}
    /\ cached_meta = None
    /\ writes = 0
    /\ last = Result("default", "Ok")
    /\ committed_state = EmptyTree
    /\ touched = {}
    /\ codec = [added_changes |-> ChangeEncoder_default, calls |-> <<>>, encoded |-> <<>>]

AddChange(key, change) ==
    /\ last.op \in {"default", "add_change"}
    /\ Len(codec.calls) < MaxEncoderAdds
    /\ codec' = [codec EXCEPT
                    !.added_changes = add_change(@, key, change),
                    !.calls = Append(@, <<key, change>>)]
    /\ last' = Result("add_change", "Ok")
    /\ UNCHANGED <<meta_tree, working_tree, backup_tree, version_change_tree,
                   version_graph_tree, id_counter, backup_key_cache, cached_meta,
                   writes, committed_state, touched>>

Encode ==
    /\ last.op \in {"default", "add_change"}
    /\ codec' = [codec EXCEPT !.encoded = encode(codec.added_changes)]
    /\ last' = Result("encode", "Ok")
    /\ UNCHANGED <<meta_tree, working_tree, backup_tree, version_change_tree,
                   version_graph_tree, id_counter, backup_key_cache, cached_meta,
                   writes, committed_state, touched>>

EncoderNext ==
    \/ \E key \in EncoderKeys : \E change \in Changes : AddChange(key, change)
    \/ Encode

EncoderSpec ==
    EncoderInit /\ [][EncoderNext]_vars

\* The keys add_change was called with.
CalledKeys ==
    {codec.calls[i][1] : i \in 1..Len(codec.calls)}

\* The change of the last add_change call for a key.
LastChange(key) ==
    codec.calls[CHOOSE i \in 1..Len(codec.calls) :
                    /\ codec.calls[i][1] = key
                    /\ \A j \in (i + 1)..Len(codec.calls) : codec.calls[j][1] # key][2]

\* Whether the encoded key bytes of the entries ascend strictly.
EncodedAscending ==
    \A i \in 1..Len(codec.encoded) : \A j \in (i + 1)..Len(codec.encoded) :
        SeqLess(codec.encoded[i][1], codec.encoded[j][1])

\* C21 as claimed: encode emits exactly one entry per distinct key, carrying
\* the change of the last add_change for that key, with the entries in
\* strictly ascending order of their encoded key bytes.
C21_Claimed ==
    last.op = "encode" =>
        /\ Len(codec.encoded) = Cardinality(CalledKeys)
        /\ \A key \in CalledKeys :
               Cardinality({i \in 1..Len(codec.encoded) :
                               codec.encoded[i][1] = as_sled_key(key)}) = 1
        /\ \A key \in CalledKeys : \E i \in 1..Len(codec.encoded) :
               codec.encoded[i] = <<as_sled_key(key), serialize(LastChange(key))>>
        /\ EncodedAscending

\* C21 amended: encode emits exactly one entry per distinct key, carrying the
\* change of the last add_change for that key, with the entries in strictly
\* ascending order of the keys (level, then morton code); the encoded key
\* bytes ascend strictly when every morton code is below 2^96.
C21_EncodeSortsByKey ==
    last.op = "encode" =>
        /\ Len(codec.encoded) = Cardinality(CalledKeys)
        /\ \A key \in CalledKeys :
               codec.encoded[1 + Cardinality({other \in CalledKeys : KeyLess(other, key)})]
                   = <<as_sled_key(key), serialize(LastChange(key))>>
        /\ (\A key \in CalledKeys : FitsIn96Bits(key.morton)) => EncodedAscending

\* Three add_change calls, the first two for one key with different changes
\* and the third for a smaller key, were encoded into two entries.
C21_Witness ==
    /\ last.op = "encode"
    /\ Len(codec.calls) = 3
    /\ codec.calls[1][1] = codec.calls[2][1]
    /\ codec.calls[1][2] # codec.calls[2][2]
    /\ KeyLess(codec.calls[3][1], codec.calls[1][1])
    /\ \A key \in CalledKeys : FitsIn96Bits(key.morton)
    /\ Len(codec.encoded) = 2

\* ---------------------------------------------------------------- more claims on the database

\* What read returned for every key when the working version was opened: the
\* state of parent_version, or nothing on a database without a commit.
OpeningState ==
    IF cached_meta.parent_version = None
    THEN EmptyState
    ELSE StateOf(unwrap(cached_meta.parent_version))

\* The backup entry that records a value read from the working tree.
BackupOf(value) ==
    IF value = None THEN serialize_remove ELSE unwrap(value)

\* C22: within one working version a write changes no backup entry that
\* exists, and the backup entry of a key is the value the key had when the
\* working version was opened: the Insert bytes, or Remove if it was absent.
C22_BackupKeepsOpeningValue ==
    /\ [](\A key \in Keys :
            as_sled_key(key) \in DOMAIN backup_tree =>
                backup_tree[as_sled_key(key)] = BackupOf(OpeningState[key]))
    /\ [][writes' = writes + 1 =>
            \A key_bytes \in DOMAIN backup_tree :
                /\ key_bytes \in DOMAIN backup_tree'
                /\ backup_tree'[key_bytes] = backup_tree[key_bytes]]_vars
    /\ [][cached_meta'.working_version # cached_meta.working_version =>
            ReadAll(Self)' = OpeningState']_vars

\* After three writes, two of them since the last commit, one key that the
\* parent version holds is gone and backed up as an Insert, and another that
\* the parent lacks is present and backed up as a Remove.
C22_Witness ==
    /\ writes = 3
    /\ last = Result("write", "Ok")
    /\ cached_meta.parent_version # None
    /\ \E key \in Keys :
           /\ as_sled_key(key) \in DOMAIN backup_tree
           /\ backup_tree[as_sled_key(key)].archived = "Insert"
           /\ read_working_version(Self, key) = None
    /\ \E key \in Keys :
           /\ as_sled_key(key) \in DOMAIN backup_tree
           /\ backup_tree[as_sled_key(key)] = serialize_remove
           /\ read_working_version(Self, key) # None

\* C23: every value stored in the working tree is a serialized Insert; no
\* Remove value is ever in the working tree.
C23_WorkingTreeHoldsInserts ==
    \A key_bytes \in DOMAIN working_tree :
        /\ working_tree[key_bytes].archived = "Insert"
        /\ working_tree[key_bytes] # serialize_remove

\* A write removed a key that was present and left another in the working
\* tree; the backup tree holds the Insert of the removed key.
C23_Witness ==
    /\ last = Result("write", "Ok")
    /\ working_tree # EmptyTree
    /\ \E key \in Keys :
           /\ as_sled_key(key) \notin DOMAIN working_tree
           /\ as_sled_key(key) \in DOMAIN backup_tree
           /\ backup_tree[as_sled_key(key)].archived = "Insert"

\* C24: the version graph is acyclic and single-parent: every node holds one
\* parent that is None or a linked version with a smaller number, and the
\* walk along the parent pointers from any linked version ends, visits no
\* version twice and stops at a node whose parent is None.
C24_GraphWalksEnd ==
    \A version \in LinkedVersions :
        LET walk == find_path_to_root(version_graph_tree, version, <<>>)
        IN  /\ walk.ok
            /\ walk.chain[1] = version
            /\ \A i \in 1..Len(walk.chain) : \A j \in (i + 1)..Len(walk.chain) :
                   walk.chain[i] # walk.chain[j]
            /\ \A i \in 1..(Len(walk.chain) - 1) :
                   GraphParent(walk.chain[i]) = Some(walk.chain[i + 1])
            /\ GraphParent(walk.chain[Len(walk.chain)]) = None
            /\ GraphParent(version) # None =>
                   /\ Linked(version_graph_tree, unwrap(GraphParent(version)))
                   /\ unwrap(GraphParent(version)).number < version.number

\* A commit after a branch_from gave a version a second child.
C24_Witness ==
    /\ last = Result("commit", "Ok")
    /\ \E a \in LinkedVersions : \E b \in LinkedVersions :
           /\ a # b
           /\ GraphParent(a) # None
           /\ GraphParent(a) = GraphParent(b)

\* C25: the commit that clears the backup without archiving it runs at most
\* once over the life of a database, reopens included: it runs only while no
\* version is linked, and from the first commit with a non-empty backup on
\* parent_version is Some in every state, in memory and in the meta tree.
C25_ClearBackupRunsOnce ==
    /\ [](version_graph_tree # EmptyTree =>
            /\ cached_meta.parent_version # None
            /\ unwrap(read_meta(meta_tree)).parent_version # None)
    /\ [][cached_meta.parent_version # None => cached_meta'.parent_version # None]_vars
    /\ [][(/\ version_graph_tree' # version_graph_tree
           /\ cached_meta.parent_version = None)
          => /\ version_graph_tree = EmptyTree
             /\ version_change_tree' = version_change_tree
             /\ backup_tree' = EmptyTree
             /\ cached_meta'.parent_version # None]_vars

\* The database was reopened after a first commit that cleared the backup and
\* a second that archived it.
C25_Witness ==
    /\ last = Result("open", "Ok")
    /\ Cardinality(LinkedVersions) = 2
    /\ Cardinality(ArchivedVersions) = 1
    /\ cached_meta.grandparent_version # None
    /\ backup_tree = EmptyTree

\* The path branch_from replays toward new_parent_version, found after its
\* leading commit; empty when that commit leaves no parent version.
ReplayedPath(new_parent_version) ==
    LET after == commit_working_version(Self).self
    IN  IF after.cached_meta.parent_version = None THEN <<>>
        ELSE find_path_between_versions(after.version_graph_tree,
                 unwrap(after.cached_meta.parent_version), new_parent_version).path

Roots ==
    {version \in LinkedVersions : GraphParent(version) = None}

\* C27: the nodes of the version graph share one root, the first committed
\* version, which is the only node with parent None; so any two linked
\* versions have a common ancestor, the path search between them succeeds,
\* and branch_from never fails with NoPathExists.
C27_OneRoot ==
    /\ Cardinality(Roots) <= 1
    /\ LinkedVersions # {} => Cardinality(Roots) = 1
    /\ \A root \in Roots : \A version \in LinkedVersions :
           /\ root.number <= version.number
           /\ \E i \in 1..Len(find_path_to_root(version_graph_tree, version, <<>>).chain) :
                  find_path_to_root(version_graph_tree, version, <<>>).chain[i] = root
    /\ \A a \in LinkedVersions : \A b \in LinkedVersions :
           LET found == find_path_between_versions(version_graph_tree, a, b)
           IN  /\ found.abort = None
               /\ found.path[1] = a
               /\ found.path[Len(found.path)] = b
    /\ last.result # "NoPathExists"

\* A branch_from went from one child of the root to an older one, over the
\* root as their common ancestor.
C27_Witness ==
    /\ last = Result("branch_from", "Ok")
    /\ cached_meta.working_version = Version_new(5)
    /\ Cardinality(LinkedVersions) = 3
    /\ cached_meta.parent_version # None
    /\ \E version \in LinkedVersions :
           /\ GraphParent(version) # None
           /\ GraphParent(version) = GraphParent(unwrap(cached_meta.parent_version))
           /\ version.number > unwrap(cached_meta.parent_version).number

\* C29: commit never changes the working tree: read returns the same for
\* every key before and after any commit, whether the backup was empty (the
\* commit does nothing) or not (the commit links the working version).
C29_CommitKeepsWorkingTree ==
    [][last'.op = "commit" =>
        /\ Commit
        /\ working_tree' = working_tree
        /\ ReadAll(Self)' = ReadAll(Self)]_vars

\* A commit archived a backup under the parent version and left two keys in
\* the working tree.
C29_Witness ==
    /\ last = Result("commit", "Ok")
    /\ Cardinality(DOMAIN working_tree) = 2
    /\ backup_tree = EmptyTree
    /\ cached_meta.grandparent_version # None
    /\ cached_meta.working_version.number = unwrap(cached_meta.parent_version).number + 1
    /\ GraphParent(unwrap(cached_meta.parent_version)) = cached_meta.grandparent_version
    /\ cached_meta.grandparent_version \in {Some(version) : version \in ArchivedVersions}

\* ---------------------------------------------------------------- write with any batch
\* write_working_version on any EncodedChanges: the field changes is public,
\* so a batch may hold the entries of several encoded batches in any order.

\* The loop after the transaction of write_working_version.  With debug
\* assertions the loop stops with a panic at a key the cache already holds;
\* without them the insert of such a key changes nothing.
RECURSIVE insert_new_backup_keys(_, _, _)
insert_new_backup_keys(keys, new_backup_keys, debug_assertions) ==
    IF new_backup_keys = <<>>
    THEN [keys |-> keys, panic |-> FALSE]
    ELSE IF debug_assertions /\ Head(new_backup_keys) \in keys
    THEN [keys |-> keys, panic |-> TRUE]
    ELSE insert_new_backup_keys(keys \cup {Head(new_backup_keys)},
             Tail(new_backup_keys), debug_assertions)

\* write_working_version as the build runs it.
write_working_version_built(self, changes, debug_assertions) ==
    LET txn == write_transaction(self, changes)
        inserted == insert_new_backup_keys(self.backup_key_cache,
                        txn.new_backup_keys, debug_assertions)
    IN  [self |-> [txn.self EXCEPT !.backup_key_cache = inserted.keys],
         new_backup_keys |-> txn.new_backup_keys,
         panic |-> inserted.panic]

\* The entries a batch can hold.
BatchEntries ==
    {<<as_sled_key(key), serialize(change)>> : key \in Keys, change \in Changes}

\* Every EncodedChanges of up to MaxAdds entries.
AnyBatches ==
    UNION {[1..n -> BatchEntries] : n \in 0..MaxAdds}

BatchInit ==
    /\ meta_tree = GridDb_open(FreshDb).meta_tree
    /\ working_tree = GridDb_open(FreshDb).working_tree
    /\ backup_tree = GridDb_open(FreshDb).backup_tree
    /\ version_change_tree = GridDb_open(FreshDb).version_change_tree
    /\ version_graph_tree = GridDb_open(FreshDb).version_graph_tree
    /\ backup_key_cache = GridDb_open(FreshDb).backup_key_cache
    /\ cached_meta = GridDb_open(FreshDb).cached_meta
    /\ id_counter = GridDb_open(FreshDb).id_counter
    /\ writes = 0
    /\ last = Result("open", "Ok")
    /\ committed_state = EmptyTree
    /\ touched = {}
    /\ codec = [changes |-> <<>>, new_backup_keys |-> <<>>, keys_before |-> {}]

\* write_working_version with any batch, in a build with or without debug
\* assertions.  After a panic the process is gone until the database is
\* opened again.
WriteBatch(changes, debug_assertions) ==
    \E written \in {write_working_version_built(Self, changes, debug_assertions)} :
        /\ last.result # "Panic"
        /\ writes < MaxWrites
        /\ writes' = writes + 1
        /\ Becomes(written.self)
        /\ last' = Result("write", IF written.panic THEN "Panic" ELSE "Ok")
        /\ touched' = touched \cup BatchKeys(changes)
        /\ codec' = [changes |-> changes,
                     new_backup_keys |-> written.new_backup_keys,
                     keys_before |-> backup_key_cache]
        /\ UNCHANGED committed_state

BatchCommit ==
    /\ last.result # "Panic"
    /\ Commit

BatchNext ==
    \/ \E changes \in AnyBatches : \E debug_assertions \in BOOLEAN :
           WriteBatch(changes, debug_assertions)
    \/ BatchCommit
    \/ Reopen

BatchSpec ==
    BatchInit /\ [][BatchNext]_vars

\* C28 as claimed: for every batch that write accepts, each key reported as
\* newly backed up is absent from the BackupKeyCache when it is inserted
\* after the transaction: the debug_assert of write_working_version never
\* fails and no batch reports a key twice.
C28_Claimed ==
    last.op = "write" =>
        /\ last.result # "Panic"
        /\ \A i \in 1..Len(codec.new_backup_keys) :
               /\ codec.new_backup_keys[i] \notin codec.keys_before
               /\ \A j \in (i + 1)..Len(codec.new_backup_keys) :
                      codec.new_backup_keys[i] # codec.new_backup_keys[j]

====
